---- MODULE Spec2Model ----
(***************************************************************************)
(* github-metrics: the paginated fetch with an on-disk cache               *)
(* (github_api_list), the record transformer (transform_pull_request_item, *)
(* fetch_pull_requests), the daily/weekly aggregation (calc_stats_daily,   *)
(* calc_stats_weekly) and the part of main that drives them.               *)
(*                                                                         *)
(* Two specifications share the variables:                                 *)
(*   Spec     sequential runs of main's fetch pipeline against one cache   *)
(*            directory and one API;                                       *)
(*   SpecAgg  the pure functions (the transform and the two calc_stats)    *)
(*            applied to bounded inputs.                                   *)
(***************************************************************************)
EXTENDS Integers, Sequences, FiniteSets, TLC

\* ------------------------------------------------------------------ bounds
MaxPages == 3      \* longest page chain the API exposes
MaxPageSize == 2   \* most items on one page (0 = an empty page)
MaxRuns == 3       \* sequential runs of the tool against one cache directory
MaxDay == 2        \* created_at dates range over day 0 .. MaxDay
MaxRecords == 2    \* most raw items handed to the pure functions

\* ------------------------------------------------------- program constants
max_length == 64   \* safe_filename's default max_length
HashLen == 7       \* hexdigest()[:7]

\* Python's None / JSON null where a timestamp or a PullRequest may stand,
\* None where a URL may stand (URLs are interned as 1, 2, ...), and no exception.
Null == [none |-> TRUE]
NoUrl == 0
NoError == "None"

\* ------------------------------------------------------------------ text
\* A str is a sequence of one-character strings.
Letters == {"a", "b", "c", "d", "e", "f", "g", "h", "i", "j", "k", "l", "m",
            "n", "o", "p", "q", "r", "s", "t", "u", "v", "w", "x", "y", "z"}
Digits == <<"0", "1", "2", "3", "4", "5", "6", "7", "8", "9">>
DigitSet == {Digits[i] : i \in 1..Len(Digits)}

\* The character class [A-Za-z0-9_\-\.] of safe_filename's pattern.
SafeChar(c) == c \in Letters \cup DigitSet \cup {"_", "-", "."}

\* re.sub(r'[^A-Za-z0-9_\-\.]', '_', s)
Sanitize(s) ==
    SubSeq([i \in 1..Len(s) |-> IF SafeChar(s[i]) THEN s[i] ELSE "_"], 1, Len(s))

RECURSIVE LStrip(_)
LStrip(s) == IF s # <<>> /\ Head(s) = "_" THEN LStrip(Tail(s)) ELSE s

RECURSIVE RStrip(_)
RStrip(s) ==
    IF s # <<>> /\ s[Len(s)] = "_" THEN RStrip(SubSeq(s, 1, Len(s) - 1)) ELSE s

\* str.strip('_')
Strip(s) == RStrip(LStrip(s))

\* s[:n]
Truncate(s, n) == IF Len(s) <= n THEN s ELSE SubSeq(s, 1, n)

\* Ordinal of a character; the characters of the model's URLs all have one.
Alphabet == <<"/", "?", "=", "&", "_", "-", ".", ":",
              "0", "1", "2", "3", "4", "5", "6", "7", "8", "9",
              "a", "b", "c", "d", "e", "f", "g", "h", "i", "j", "k", "l", "m",
              "n", "o", "p", "q", "r", "s", "t", "u", "v", "w", "x", "y", "z">>
Ord(c) == CHOOSE i \in 1..Len(Alphabet) : Alphabet[i] = c

\* sha256(s.encode()).hexdigest()[:7] is a HashLen-hex-digit digest of the whole
\* string.  SHA-256 itself is not computed: the digest is a positional
\* checksum of the same width (16^HashLen values), which like the real one
\* reads every character of s, also those past max_length.  Digest(s, lo, hi)
\* is the checksum of s[lo..hi], summed by halves.
RECURSIVE Digest(_, _, _)
Digest(s, lo, hi) ==
    IF lo > hi THEN 0
    ELSE IF lo = hi THEN (lo * lo * Ord(s[lo])) % (16 ^ HashLen)
    ELSE LET mid == (lo + hi) \div 2
         IN  (Digest(s, lo, mid) + Digest(s, mid + 1, hi)) % (16 ^ HashLen)

short_hash(s) == Digest(s, 1, Len(s))

safe_str(s) == Truncate(Strip(Sanitize(s)), max_length)

\* safe_filename(s): f'{safe_str}--{short_hash}', kept as the pair.
safe_filename(s) == <<safe_str(s), short_hash(s)>>

\* ------------------------------------------------------------ timestamps
\* The text of a timestamp as the API sends it ("2024-01-01T01:30:00Z") is the
\* record [date, hh, mm, ss]: date counts days from Saturday 2023-12-30 and
\* the zone is always Z.
SecondsPerDay == 24 * 60 * 60

TsText(d, h, m, s) == [date |-> d, hh |-> h, mm |-> m, ss |-> s]

\* dateutil's parse: the timezone-aware instant, in seconds since day 0, 00:00Z.
parse_datetime(t) == t.date * SecondsPerDay + t.hh * 3600 + t.mm * 60 + t.ss

\* A faulty rounding: a tie always goes up.
RoundHalfUpDiv(n, d) == (2 * n + d) \div (2 * d)

\* Python 3's round(n / d) for integers n and d > 0: to the nearest integer,
\* a tie to the even one.  (n / d is exact in a float at a tie: q + 0.5.)
PyRoundDiv(n, d) ==
    LET q == n \div d
        r == n % d
    IN  IF 2 * r < d THEN q
        ELSE IF 2 * r > d THEN q + 1
        ELSE IF q % 2 = 0 THEN q ELSE q + 1

\* ------------------------------------------------------- Record Transformer
\* transform_pull_request_item(item): None, or the PullRequest.
transform_pull_request_item(item) ==
    IF item.merged_at = Null THEN Null
    ELSE LET created_at == parse_datetime(item.created_at)
             merged_at == parse_datetime(item.merged_at)
             create_to_merge_td == merged_at - created_at
         IN  [title |-> item.title,
              url |-> item.html_url,
              created_at |-> created_at,
              merged_at |-> merged_at,
              created_to_merged_minutes |-> PyRoundDiv(create_to_merge_td, 60)]

\* fetch_pull_requests, one item of the stream: the item is transformed and
\* the record, if there is one, is yielded (here: appended to what was yielded).
Collect(recs, item) ==
    LET pull_request == transform_pull_request_item(item)
    IN  IF pull_request # Null THEN Append(recs, pull_request) ELSE recs

\* fetch_pull_requests over a whole item stream, from the first item on.
RECURSIVE fetch_pull_requests_of(_)
fetch_pull_requests_of(its) ==
    IF its = <<>> THEN <<>>
    ELSE Collect(fetch_pull_requests_of(SubSeq(its, 1, Len(its) - 1)), its[Len(its)])

\* ------------------------------------------------------------ the API
\* The URLs of a run are kept interned: URL u stands for the text UrlText(u).
\* URL 1 is the seed URL of fetch_pull_requests, for owner "owner" and repo
\* "repo": https://api.github.com/repos/owner/repo/pulls?state=closed
SeedUrlText ==
    <<"h", "t", "t", "p", "s", ":", "/", "/", "a", "p", "i", ".", "g", "i",
      "t", "h", "u", "b", ".", "c", "o", "m", "/", "r", "e", "p", "o", "s",
      "/", "o", "w", "n", "e", "r", "/", "r", "e", "p", "o", "/", "p", "u",
      "l", "l", "s", "?", "s", "t", "a", "t", "e", "=", "c", "l", "o", "s",
      "e", "d">>

\* URL k > 1 is the cursor URL the API hands out for page k:
\* https://api.github.com/repositories/1300192/pulls?state=closed&page=k
CursorUrlText ==
    <<"h", "t", "t", "p", "s", ":", "/", "/", "a", "p", "i", ".", "g", "i",
      "t", "h", "u", "b", ".", "c", "o", "m", "/", "r", "e", "p", "o", "s",
      "i", "t", "o", "r", "i", "e", "s", "/", "1", "3", "0", "0", "1", "9",
      "2", "/", "p", "u", "l", "l", "s", "?", "s", "t", "a", "t", "e", "=",
      "c", "l", "o", "s", "e", "d", "&", "p", "a", "g", "e", "=">>

UrlText(u) == IF u = 1 THEN SeedUrlText ELSE CursorUrlText \o <<Digits[u + 1]>>

SeedUrl == 1

PageUrl(k) == k

Urls == 1..MaxPages

\* The cache files are interned too: the file of URL u is named
\* safe_filename(UrlText(u)) and stands as the least URL with that file name,
\* so two URLs share a file exactly when safe_filename gives them one name.
PathTable ==
    [u \in Urls |->
        CHOOSE v \in Urls :
            /\ safe_filename(UrlText(v)) = safe_filename(UrlText(u))
            /\ \A w \in Urls :
                   safe_filename(UrlText(w)) = safe_filename(UrlText(u)) => v <= w]

Files == {PathTable[u] : u \in Urls}

NoFile == [absent |-> TRUE]

\* The raw item (title, html_url, created_at, merged_at) the API serves as entry i
\* of page k while its content is at version e.
RawItem(k, i, e) ==
    [title |-> <<"pr", k, i, e>>,
     html_url |-> <<"pull", k, i>>,
     created_at |-> TsText(k % (MaxDay + 1), 0, 0, 0),
     merged_at |-> IF (k + i) % 3 = 0 THEN Null
                   ELSE IF i % 2 = 1 THEN TsText(k % (MaxDay + 1), 1, 30, 20 * (k % 3))
                   ELSE TsText(k % (MaxDay + 1), 0, 1 + (k % 2), 30)]

VARIABLES
    chain,        \* the API: [n, sizes, lastLink]: n pages, their sizes, and
                  \* whether the final page's response has a Link header
    epoch,        \* version of the API's content (0, then 1 once it changed)
    cache,        \* the cache directory: file name -> NoFile or {items, next_url}
    runs,         \* number of runs of the tool started so far
    pc,           \* where the current run is
    url,          \* github_api_list's url
    items,        \* github_api_list's items
    next_url,     \* github_api_list's next_url
    idx,          \* number of items of `items` already yielded
    inflight,     \* the requests sent and not yet answered
    errKind,      \* the exception that ended the run, else NoError
    log,          \* this run's events: lookup, get, http_error, cache, yield
    records,      \* what fetch_pull_requests has yielded to main in this run
    out,          \* the record rows main has written in this run
    cacheAtStart, \* history: the files the cache held when this run started
    prevYield,    \* history: [done, items]: whether a run has completed, and
                  \* the items the last completed run yielded
    raw,          \* SpecAgg: the raw items
    df,           \* SpecAgg: the DataFrame of PullRequest records
    stats,        \* SpecAgg: the result of calc_stats_daily or calc_stats_weekly
    stage         \* SpecAgg: "raw", "df", "daily", "weekly"

vars == <<chain, epoch, cache, runs, pc, url, items, next_url, idx, inflight,
          errKind, log, records, out, cacheAtStart, prevYield,
          raw, df, stats, stage>>

aggVars == <<raw, df, stats, stage>>
runVars == <<chain, epoch, cache, runs, pc, url, items, next_url, idx, inflight,
             errKind, log, records, out, cacheAtStart, prevYield>>

PageOf(u) == CHOOSE k \in 1..MaxPages : PageUrl(k) = u

\* r.json() of page k
PageItems(k) == [i \in 1..chain.sizes[k] |-> RawItem(k, i, epoch)]

\* The Link header GitHub sends with page k: the list of its
\* <url>; rel="..." relations (prev, next, last, first, as they apply).
LinkValue(k) ==
       (IF k > 1 THEN <<[url |-> PageUrl(k - 1), rel |-> "prev"]>> ELSE <<>>)
    \o (IF k < chain.n
        THEN <<[url |-> PageUrl(k + 1), rel |-> "next"],
               [url |-> PageUrl(chain.n), rel |-> "last"]>>
        ELSE <<>>)
    \o <<[url |-> PageUrl(1), rel |-> "first"]>>

\* r.headers of page k, header name -> value.  A final page may come without
\* any Link header (GitHub sends none when the result fits one page).
Headers(k) ==
    IF k = chain.n /\ chain.lastLink = "absent"
    THEN [h \in {"Content-Type"} |-> <<>>]
    ELSE [h \in {"Content-Type", "Link"} |-> IF h = "Link" THEN LinkValue(k) ELSE <<>>]

\* A faulty match: the first relation of the header, whatever its rel.
FirstRelUrl(link) == IF link = <<>> THEN NoUrl ELSE link[1].url

\* re.search(r'<(?P<url>[^<]+)>; rel="next"', link): the first relation whose
\* rel is next; m.group('url') if m else None.
RECURSIVE NextRelUrl(_)
NextRelUrl(link) ==
    IF link = <<>> THEN NoUrl
    ELSE IF Head(link).rel = "next" THEN Head(link).url
    ELSE NextRelUrl(Tail(link))

\* ------------------------------------------------------- views of the log
Event(e, u) == [ev |-> e, url |-> u]
YieldEvent(u, it) == [ev |-> "yield", url |-> u, item |-> it]

RECURSIVE GetsOf(_)
GetsOf(l) ==
    IF l = <<>> THEN <<>>
    ELSE (IF Head(l).ev = "get" THEN <<Head(l).url>> ELSE <<>>) \o GetsOf(Tail(l))

RECURSIVE YieldedOf(_)
YieldedOf(l) ==
    IF l = <<>> THEN <<>>
    ELSE (IF Head(l).ev = "yield" THEN <<Head(l).item>> ELSE <<>>) \o YieldedOf(Tail(l))

Gets == GetsOf(log)
Yielded == YieldedOf(log)

Ended == {"done", "error", "abandoned"}

\* ------------------------------------------------------- Paginated Fetcher
\* path = cache_path / (safe_filename(url) + '.json')
path(u) == PathTable[u]

\* A faulty lookup: the file is never found.
never_file(c, u) == FALSE

\* path.is_file() in the cache directory c
is_file(c, u) == c[path(u)] # NoFile

\* main reaches fetch_pull_requests and the consumer asks for the first item:
\* github_api_list(seed) starts.
StartRun ==
    /\ pc \in {"idle"} \cup Ended
    /\ runs < MaxRuns
    /\ runs' = runs + 1
    /\ pc' = "check"
    /\ url' = SeedUrl
    /\ items' = <<>>
    /\ next_url' = NoUrl
    /\ idx' = 0
    /\ errKind' = NoError
    /\ log' = <<>>
    /\ records' = <<>>
    /\ out' = <<>>
    /\ cacheAtStart' = {f \in Files : cache[f] # NoFile}
    /\ prevYield' = IF pc = "done" THEN [done |-> TRUE, items |-> Yielded] ELSE prevYield
    /\ UNCHANGED <<chain, epoch, cache, inflight>>
    /\ UNCHANGED aggVars

\* path.is_file() holds: json.load, items = data['items'], next_url = data['next_url'].
ReadCache ==
    /\ pc = "check"
    /\ is_file(cache, url)
    /\ items' = cache[path(url)].items
    /\ next_url' = cache[path(url)].next_url
    /\ idx' = 0
    /\ pc' = "loaded"
    /\ log' = Append(log, Event("lookup", url))
    /\ UNCHANGED <<chain, epoch, cache, runs, url, inflight, errKind, records, out,
                   cacheAtStart, prevYield>>
    /\ UNCHANGED aggVars

\* path.is_file() fails: requests.get(url, headers=...) is sent.
SendRequest ==
    /\ pc = "check"
    /\ ~is_file(cache, url)
    /\ inflight' = inflight \cup {url}
    /\ pc' = "wait"
    /\ log' = log \o <<Event("lookup", url), Event("get", url)>>
    /\ UNCHANGED <<chain, epoch, cache, runs, url, items, next_url, idx, errKind,
                   records, out, cacheAtStart, prevYield>>
    /\ UNCHANGED aggVars

\* A faulty handling of a non-success status: the request is tried again.
RaiseForStatusRetry ==
    /\ pc = "wait"
    /\ Len(log) < 2 * MaxPages + 2
    /\ inflight' = inflight \ {url}
    /\ pc' = "check"
    /\ log' = Append(log, Event("http_error", url))
    /\ UNCHANGED <<chain, epoch, cache, runs, url, items, next_url, idx, errKind,
                   records, out, cacheAtStart, prevYield>>
    /\ UNCHANGED aggVars

\* The response has a non-success status: r.raise_for_status() raises, the
\* exception leaves the generators and main.
RaiseForStatus ==
    /\ pc = "wait"
    /\ inflight' = inflight \ {url}
    /\ pc' = "error"
    /\ errKind' = "HTTPError"
    /\ log' = Append(log, Event("http_error", url))
    /\ UNCHANGED <<chain, epoch, cache, runs, url, items, next_url, idx,
                   records, out, cacheAtStart, prevYield>>
    /\ UNCHANGED aggVars

\* The response is a success without a Link header: r.headers['Link'] raises
\* KeyError before anything is written.
LinkKeyError ==
    /\ pc = "wait"
    /\ "Link" \notin DOMAIN Headers(PageOf(url))
    /\ inflight' = inflight \ {url}
    /\ pc' = "error"
    /\ errKind' = "KeyError"
    /\ UNCHANGED <<chain, epoch, cache, runs, url, items, next_url, idx, log,
                   records, out, cacheAtStart, prevYield>>
    /\ UNCHANGED aggVars

\* Faulty writes: nothing is written; the cursor is left out of the file.
WriteCacheSkipped(c, u, data) == c
WriteCacheNoNext(c, u, data) == [c EXCEPT ![path(u)] = [data EXCEPT !.next_url = NoUrl]]

\* What the write of the cache file leaves in the directory.
WriteCache(c, u, data) == [c EXCEPT ![path(u)] = data]

\* Lines 58-67: items and next_url of the response, and the cache file
\* {items, next_url} written (path.open('w'), json.dump).
ParseAndWrite(its, nxt) ==
    /\ items' = its
    /\ next_url' = nxt
    /\ cache' = WriteCache(cache, url, [items |-> its, next_url |-> nxt])
    /\ log' = Append(log, Event("cache", url))

\* The response is a success with a Link header: parse it, write the cache.
ReceiveResponse ==
    /\ pc = "wait"
    /\ "Link" \in DOMAIN Headers(PageOf(url))
    /\ inflight' = inflight \ {url}
    /\ ParseAndWrite(PageItems(PageOf(url)), NextRelUrl(Headers(PageOf(url))["Link"]))
    /\ idx' = 0
    /\ pc' = "loaded"
    /\ UNCHANGED <<chain, epoch, runs, url, errKind, records, out, cacheAtStart,
                   prevYield>>
    /\ UNCHANGED aggVars

\* yield from items, one item: the generator hands items[idx] to
\* fetch_pull_requests, which transforms it and yields the record, if any, to
\* main, and is suspended there until the consumer asks for more.
YieldItem ==
    /\ pc \in {"loaded", "suspended"}
    /\ idx < Len(items)
    /\ idx' = idx + 1
    /\ log' = Append(log, YieldEvent(url, items[idx + 1]))
    /\ records' = Collect(records, items[idx + 1])
    /\ pc' = "suspended"
    /\ UNCHANGED <<chain, epoch, cache, runs, url, items, next_url, inflight, errKind,
                   out, cacheAtStart, prevYield>>
    /\ UNCHANGED aggVars

\* if next_url: yield from github_api_list(next_url, ...)
NextPage ==
    /\ pc \in {"loaded", "suspended"}
    /\ idx = Len(items)
    /\ next_url # NoUrl
    /\ url' = next_url
    /\ pc' = "check"
    /\ UNCHANGED <<chain, epoch, cache, runs, items, next_url, idx, inflight, errKind,
                   log, records, out, cacheAtStart, prevYield>>
    /\ UNCHANGED aggVars

\* next_url is None: the generators are exhausted, main builds the DataFrame
\* from the records and df.to_csv writes one row per record.
Finish ==
    /\ pc \in {"loaded", "suspended"}
    /\ idx = Len(items)
    /\ next_url = NoUrl
    /\ pc' = "done"
    /\ out' = records
    /\ UNCHANGED <<chain, epoch, cache, runs, url, items, next_url, idx, inflight,
                   errKind, log, records, cacheAtStart, prevYield>>
    /\ UNCHANGED aggVars

\* A consumer of the generator stops asking while the generator is suspended
\* at a yield (main itself never does; the process can be stopped there).
Abandon ==
    /\ pc = "suspended"
    /\ pc' = "abandoned"
    /\ UNCHANGED <<chain, epoch, cache, runs, url, items, next_url, idx, inflight,
                   errKind, log, records, out, cacheAtStart, prevYield>>
    /\ UNCHANGED aggVars

\* Between two runs the content the API serves changes.
ApiChange ==
    /\ pc \in Ended
    /\ epoch = 0
    /\ epoch' = 1
    /\ UNCHANGED <<chain, cache, runs, pc, url, items, next_url, idx, inflight,
                   errKind, log, records, out, cacheAtStart, prevYield>>
    /\ UNCHANGED aggVars

Chains ==
    UNION {[n : {n}, sizes : [1..n -> 0..MaxPageSize], lastLink : {"absent", "present"}]
           : n \in 1..MaxPages}

NoStats == [ok |-> FALSE, rows |-> <<>>]

AggOff ==
    /\ raw = <<>>
    /\ df = <<>>
    /\ stats = NoStats
    /\ stage = "off"

RunOff ==
    /\ epoch = 0
    /\ cache = [f \in Files |-> NoFile]
    /\ runs = 0
    /\ pc = "idle"
    /\ url = NoUrl
    /\ items = <<>>
    /\ next_url = NoUrl
    /\ idx = 0
    /\ inflight = {}
    /\ errKind = NoError
    /\ log = <<>>
    /\ records = <<>>
    /\ out = <<>>
    /\ cacheAtStart = {}
    /\ prevYield = [done |-> FALSE, items |-> <<>>]

Init ==
    /\ chain \in Chains
    /\ RunOff
    /\ AggOff

Next ==
    \/ StartRun
    \/ ReadCache
    \/ SendRequest
    \/ RaiseForStatus
    \/ LinkKeyError
    \/ ReceiveResponse
    \/ YieldItem
    \/ NextPage
    \/ Finish
    \/ Abandon
    \/ ApiChange

Spec == Init /\ [][Next]_vars

\* --------------------------------------------------------------- Aggregator
\* Day of the week of day d, Monday = 0 .. Sunday = 6 (day 0 is a Saturday).
Weekday(d) == (d + 5) % 7

\* A faulty label: the week's bin labelled with the Monday that starts it.
StartLabel(t, freq) ==
    LET d == t \div SecondsPerDay
    IN  IF freq = "D" THEN d * SecondsPerDay ELSE (d - Weekday(d)) * SecondsPerDay

\* pd.Grouper(freq='D'): daily bins closed and labelled on the left, so a
\* timestamp's bin is labelled with the midnight that starts its day.
\* pd.Grouper(freq='W'): W-SUN bins, closed and labelled on the right, so a
\* timestamp's bin is labelled with the midnight that starts the Sunday ending
\* its Monday-to-Sunday week.
BinLabel(t, freq) ==
    LET d == t \div SecondsPerDay
    IN  IF freq = "D" THEN d * SecondsPerDay
        ELSE (d + (6 - Weekday(d))) * SecondsPerDay

Period(freq) == IF freq = "D" THEN SecondsPerDay ELSE 7 * SecondsPerDay

SetMin(S) == CHOOSE x \in S : \A y \in S : x <= y
SetMax(S) == CHOOSE x \in S : \A y \in S : y <= x

RECURSIVE Sorted(_)
Sorted(S) == IF S = {} THEN <<>> ELSE <<SetMin(S)>> \o Sorted(S \ {SetMin(S)})

\* The bins of a groupby on column key: every label from the first record's
\* bin to the last record's bin, the empty bins in between included.
Bins(frame, key, freq) ==
    LET labels == {BinLabel(frame[i][key], freq) : i \in DOMAIN frame}
        lo == SetMin(labels)
        hi == SetMax(labels)
    IN  {lo + k * Period(freq) : k \in 0..((hi - lo) \div Period(freq))}

\* A faulty grouping: only the first row is looked at.
FirstInBin(frame, key, freq, b) ==
    {i \in DOMAIN frame : i = 1 /\ BinLabel(frame[i][key], freq) = b}

\* The rows of column key that fall in the bin labelled b.
InBin(frame, key, freq, b) ==
    {i \in DOMAIN frame : BinLabel(frame[i][key], freq) = b}

RECURSIVE SumMinutes(_, _)
SumMinutes(frame, I) ==
    IF I = {} THEN 0
    ELSE LET i == CHOOSE i \in I : TRUE
         IN  frame[i].created_to_merged_minutes + SumMinutes(frame, I \ {i})

\* A cell of the result is <<value>>, or <<>> where pandas has NaN (blank in
\* the CSV).  A mean is kept as the fraction [num, den].
\* .count() of the groupby: a number for every bin, 0 for an empty one.
CountCell(frame, key, freq, b) ==
    IF b \in Bins(frame, key, freq)
    THEN <<Cardinality(InBin(frame, key, freq, b))>>
    ELSE <<>>

\* ['created_to_merged_minutes'].mean() of the groupby on merged_at: NaN for an
\* empty bin.
MeanCell(frame, freq, b) ==
    LET I == InBin(frame, "merged_at", freq, b)
    IN  IF I = {} THEN <<>>
        ELSE <<[num |-> SumMinutes(frame, I), den |-> Cardinality(I)]>>

\* pd.DataFrame({created, merged, mean}): the three series joined on the union
\* of their indexes, in ascending order.  On a DataFrame without rows the
\* groupby raises (there is no datetime column to group on): no result.
calc_stats(frame, freq) ==
    IF frame = <<>> THEN [ok |-> FALSE, rows |-> <<>>]
    ELSE LET index == Sorted(Bins(frame, "created_at", freq)
                             \cup Bins(frame, "merged_at", freq))
         IN  [ok |-> TRUE,
              rows |-> [j \in 1..Len(index) |->
                  [date |-> index[j],
                   created |-> CountCell(frame, "created_at", freq, index[j]),
                   merged |-> CountCell(frame, "merged_at", freq, index[j]),
                   minutes |-> MeanCell(frame, freq, index[j])]]]

calc_stats_daily(frame) == calc_stats(frame, "D")

calc_stats_weekly(frame) == calc_stats(frame, "W")

\* ------------------------------------------------ the pure functions, applied
\* The raw items the pure functions are tried on: created on any day up to
\* MaxDay at 00:00:00 or 23:57:30, and unmerged, or merged the same or the next
\* day at 00:00:00 or 00:00:40 (the same day before the creation too: the code
\* passes a negative duration through).
RawPool ==
    {[title |-> <<"pr">>, html_url |-> <<"pull">>,
      created_at |-> TsText(cd, ct[1], ct[2], ct[3]),
      merged_at |-> IF m[1] < 0 THEN Null ELSE TsText(cd + m[1], 0, 0, m[2])]
       : <<cd, ct, m>> \in (0..MaxDay) \X {<<0, 0, 0>>, <<23, 57, 30>>}
           \X {<<-1, 0>>, <<0, 0>>, <<0, 40>>, <<1, 0>>, <<1, 40>>}}

RawSeqs == UNION {[1..n -> RawPool] : n \in 0..MaxRecords}

InitAgg ==
    /\ raw \in RawSeqs
    /\ df = <<>>
    /\ stats = NoStats
    /\ stage = "raw"
    /\ chain = [n |-> 1, sizes |-> <<0>>, lastLink |-> "present"]
    /\ RunOff

\* main: df = pd.DataFrame(... for pr in fetch_pull_requests(...))
Transform ==
    /\ stage = "raw"
    /\ df' = fetch_pull_requests_of(raw)
    /\ stage' = "df"
    /\ UNCHANGED <<raw, stats>>
    /\ UNCHANGED runVars

\* main: df_stats_daily = calc_stats_daily(df)
CalcDaily ==
    /\ stage = "df"
    /\ stats' = calc_stats_daily(df)
    /\ stage' = "daily"
    /\ UNCHANGED <<raw, df>>
    /\ UNCHANGED runVars

\* main: df_stats_weekly = calc_stats_weekly(df)
CalcWeekly ==
    /\ stage = "df"
    /\ stats' = calc_stats_weekly(df)
    /\ stage' = "weekly"
    /\ UNCHANGED <<raw, df>>
    /\ UNCHANGED runVars

NextAgg ==
    \/ Transform
    \/ CalcDaily
    \/ CalcWeekly

SpecAgg == InitAgg /\ [][NextAgg]_vars

\* ------------------------------------------------------------------ claims
\* What the API serves: all pages' items in chain order, each page's cursor.
RECURSIVE ItemsUpTo(_)
ItemsUpTo(k) == IF k = 0 THEN <<>> ELSE ItemsUpTo(k - 1) \o PageItems(k)

AllItems == ItemsUpTo(chain.n)

ApiNext(k) == IF k < chain.n THEN PageUrl(k + 1) ELSE NoUrl

Cached(k) == cache[path(PageUrl(k))] # NoFile

Pos(e, u) == {i \in DOMAIN log : log[i].ev = e /\ log[i].url = u}

IsPrefix(a, b) == Len(a) <= Len(b) /\ SubSeq(b, 1, Len(a)) = a

\* The pages of the chain whose file was not in the cache when the run
\* started, in chain order.
RECURSIVE UncachedUpTo(_)
UncachedUpTo(k) ==
    IF k = 0 THEN <<>>
    ELSE UncachedUpTo(k - 1)
         \o (IF path(PageUrl(k)) \in cacheAtStart THEN <<>> ELSE <<PageUrl(k)>>)

\* C1: a run over an initially empty cache whose every GET was answered with a
\* success has, once it has ended, yielded exactly the concatenation of the
\* pages' items: every item once, pages in chain order, items in page order.
C1_PaginationComplete ==
    (pc \in {"done", "error"} /\ cacheAtStart = {} /\ errKind # "HTTPError")
        => Yielded = AllItems

\* C2: once a run has been consumed to completion, every later run against the
\* same cache directory sends no GET at all and yields, position by position,
\* the items that run yielded, also after the API's content has changed.
C2_CacheIdempotence ==
    prevYield.done =>
        /\ Gets = <<>>
        /\ inflight = {}
        /\ pc # "error"
        /\ IsPrefix(Yielded, prevYield.items)
        /\ (pc = "done" => Yielded = prevYield.items)

C2_Witness ==
    /\ prevYield.done
    /\ pc = "done"
    /\ epoch = 1
    /\ chain.n > 1
    /\ Len(Yielded) > 1
    /\ Yielded # AllItems

Answered(k) ==
    /\ Pos("get", PageUrl(k)) # {}
    /\ Pos("http_error", PageUrl(k)) = {}
    /\ ~(pc = "wait" /\ url = PageUrl(k))

\* C3: a page whose GET was answered with a success and no rel="next" relation
\* (no Link header at all included) is the final page: it is cached with
\* next_url null and the run does not end in an error.
C3_FinalPageTerminates ==
    \A k \in 1..chain.n :
        (Answered(k) /\ ApiNext(k) = NoUrl) =>
            /\ pc # "error"
            /\ Cached(k)
            /\ cache[path(PageUrl(k))].next_url = NoUrl

\* C4: a GET answered with a non-success status ends the run at once: the
\* failure is the run's last event, the URL was requested once, no file was
\* written for it, and main has written no record row.
C4_FailFast ==
    \A i \in DOMAIN log :
        log[i].ev = "http_error" =>
            /\ i = Len(log)
            /\ pc = "error"
            /\ errKind = "HTTPError"
            /\ Cardinality(Pos("get", log[i].url)) = 1
            /\ cache[path(log[i].url)] = NoFile
            /\ inflight = {}
            /\ out = <<>>

C4_Witness ==
    /\ pc = "error"
    /\ errKind = "HTTPError"
    /\ url # SeedUrl
    /\ records # <<>>
    /\ out = <<>>

\* The state part of C8: a lookup right before every GET, a GET only for a
\* URL that had no cache file, one GET per URL.
C8_ReadBeforeWrite ==
    /\ \A u \in Urls : \A g \in Pos("get", u) :
           /\ g > 1
           /\ log[g - 1] = Event("lookup", u)
           /\ path(u) \notin cacheAtStart
           /\ Cardinality(Pos("get", u)) = 1
    /\ \A u \in inflight : cache[path(u)] = NoFile

\* The step part of C8: a cache file that is there is left as it is.
C8_WriteOnceStep == \A f \in Files : cache[f] # NoFile => cache'[f] = cache[f]

\* C8: the cache is looked up before every GET, a GET is sent only for a URL
\* without a cache file, and a cache file, once there, never changes: no step
\* of this or a later run rewrites or removes it.
C8_WriteOnce == [](C8_ReadBeforeWrite) /\ [][C8_WriteOnceStep]_vars

C8_Witness ==
    /\ runs > 1
    /\ epoch = 1
    /\ pc = "loaded"
    /\ url = SeedUrl
    /\ Gets = <<>>
    /\ items # <<>>
    /\ items # PageItems(1)

Pred(u) == PageUrl(PageOf(u) - 1)

\* C9: per page, in this order: GET, cache file written, items yielded, GET of
\* the successor.  No item of a fetched page is yielded before the page's
\* file is in the cache, the successor is requested only after all of the
\* page's items were yielded, and at most one request is outstanding.
C9_PageEventOrder ==
    /\ Cardinality(inflight) <= 1
    /\ \A u \in Urls :
        /\ \A y \in Pos("yield", u) : cache[path(u)] # NoFile
        /\ \A g \in Pos("get", u) :
            /\ \A c \in Pos("cache", u) : g < c
            /\ \A y \in Pos("yield", u) : \E c \in Pos("cache", u) : c < y
            /\ u # SeedUrl =>
                /\ cache[path(Pred(u))] # NoFile
                /\ Cardinality({y \in Pos("yield", Pred(u)) : y < g})
                       = Len(cache[path(Pred(u))].items)
                /\ \A y \in Pos("yield", Pred(u)) : y < g

C9_Witness ==
    /\ Pos("get", SeedUrl) # {}
    /\ Pos("get", PageUrl(2)) # {}
    /\ Cardinality(Pos("yield", SeedUrl)) > 1
    /\ Pos("yield", PageUrl(2)) # {}

\* C10: while the API's content is stable, after any sequence of runs
\* (completed, abandoned, ended by an error) the cached URLs are a prefix of
\* the page chain, every cache file holds the API's items and cursor of its
\* URL, and a run that completes has sent one GET for each page that was not
\* cached when it started, in chain order, and yielded the items a run over an
\* empty cache yields.
C10_CacheIsFaithfulPrefix ==
    epoch = 0 =>
        /\ \A k \in 1..MaxPages :
               Cached(k) =>
                   /\ k <= chain.n
                   /\ k > 1 => Cached(k - 1)
                   /\ cache[path(PageUrl(k))]
                          = [items |-> PageItems(k), next_url |-> ApiNext(k)]
        /\ pc = "done" =>
               /\ Gets = UncachedUpTo(chain.n)
               /\ Yielded = AllItems

C10_Witness ==
    /\ epoch = 0
    /\ pc = "done"
    /\ cacheAtStart # {}
    /\ Gets # <<>>
    /\ Len(Yielded) > 2

\* The positions in raw of the merged items, and of the j-th of them.
MergedIdx == {i \in DOMAIN raw : raw[i].merged_at # Null}

NthMerged(j) == CHOOSE i \in MergedIdx : Cardinality({m \in MergedIdx : m <= i}) = j

Elapsed(item) == parse_datetime(item.merged_at) - parse_datetime(item.created_at)

IsRounded(m, secs) ==
    /\ 60 * m - secs \in -30..30
    /\ (60 * m - secs \in {-30, 30}) => m % 2 = 0

\* C5: fetch_pull_requests yields nothing for an item whose merged_at is null
\* and one record for every other item, in the order of the items; the
\* record's created_to_merged_minutes is the elapsed seconds over 60, rounded
\* to the nearest integer (a tie to the even one, as Python's round does).
C5_FilterCorrect ==
    stage # "raw" =>
        /\ Len(df) = Cardinality(MergedIdx)
        /\ \A i \in DOMAIN raw :
               raw[i].merged_at = Null => transform_pull_request_item(raw[i]) = Null
        /\ \A j \in DOMAIN df :
               /\ df[j].created_at = parse_datetime(raw[NthMerged(j)].created_at)
               /\ df[j].merged_at = parse_datetime(raw[NthMerged(j)].merged_at)
               /\ df[j].title = raw[NthMerged(j)].title
               /\ df[j].url = raw[NthMerged(j)].html_url
               /\ IsRounded(df[j].created_to_merged_minutes, Elapsed(raw[NthMerged(j)]))

C5_Witness ==
    /\ stage = "df"
    /\ Len(raw) = 2
    /\ raw[1].merged_at = Null
    /\ Len(df) = 1
    /\ Elapsed(raw[2]) = 150
    /\ df[1].created_to_merged_minutes = 2

CellValue(cell) == IF cell = <<>> THEN 0 ELSE cell[1]

RECURSIVE SumColumn(_, _)
SumColumn(rows, col) ==
    IF rows = <<>> THEN 0 ELSE CellValue(Head(rows)[col]) + SumColumn(Tail(rows), col)

CountedFrom(key, lo, hi) == {i \in DOMAIN df : lo <= df[i][key] /\ df[i][key] < hi}

RowCounts(row, lo, hi) ==
    /\ CellValue(row.created) = Cardinality(CountedFrom("created_at", lo, hi))
    /\ CellValue(row.merged) = Cardinality(CountedFrom("merged_at", lo, hi))
    /\ (row.minutes # <<>>) = (CountedFrom("merged_at", lo, hi) # {})
    /\ row.minutes # <<>> =>
           /\ row.minutes[1].den = Cardinality(CountedFrom("merged_at", lo, hi))
           /\ row.minutes[1].num = SumMinutes(df, CountedFrom("merged_at", lo, hi))

Covered(lo, hi) ==
    \A i \in DOMAIN df : \A key \in {"created_at", "merged_at"} :
        \E j \in DOMAIN stats.rows :
            /\ stats.rows[j].date + lo <= df[i][key]
            /\ df[i][key] < stats.rows[j].date + hi

\* C7 as stated: in both granularities a row's date is the first instant of
\* its bucket: the row counts, as created, merged and in the mean, exactly the
\* records whose timestamp lies in [date, date + period), and every record
\* lies in the bucket of some row.
C7_KeyIsPeriodStart ==
    stage \in {"daily", "weekly"} =>
        LET period == IF stage = "daily" THEN SecondsPerDay ELSE 7 * SecondsPerDay
        IN  /\ \A j \in DOMAIN stats.rows :
                   RowCounts(stats.rows[j], stats.rows[j].date,
                             stats.rows[j].date + period)
            /\ Covered(0, period)

\* C7 as amended: a daily row's date is the midnight that starts its day; a
\* weekly row's date is the midnight that starts the Sunday ending its
\* Monday-to-Sunday week, so a weekly row counts the records of the six days
\* before its date and of the day of its date.
C7_KeyIsBinLabel ==
    /\ stage = "daily" =>
           /\ \A j \in DOMAIN stats.rows :
                  RowCounts(stats.rows[j], stats.rows[j].date,
                            stats.rows[j].date + SecondsPerDay)
           /\ Covered(0, SecondsPerDay)
    /\ stage = "weekly" =>
           /\ \A j \in DOMAIN stats.rows :
                  /\ stats.rows[j].date % SecondsPerDay = 0
                  /\ Weekday(stats.rows[j].date \div SecondsPerDay) = 6
                  /\ RowCounts(stats.rows[j], stats.rows[j].date - 6 * SecondsPerDay,
                               stats.rows[j].date + SecondsPerDay)
           /\ Covered(-6 * SecondsPerDay, SecondsPerDay)
    /\ stage \in {"daily", "weekly"} =>
           \A j \in DOMAIN stats.rows : j > 1 => stats.rows[j - 1].date < stats.rows[j].date

C7_Witness ==
    /\ stage = "weekly"
    /\ Len(df) = 2
    /\ Len(stats.rows) = 2
    /\ stats.rows[1].created = <<2>>
    /\ df[1].created_at < stats.rows[1].date
    /\ stats.rows[2].created = <<>>
    /\ stats.rows[2].merged = <<1>>

====
